---- MODULE Spec2Model ----
(***************************************************************************)
(* Model of ssz/utils.py: the zero-hash table built at module import, the  *)
(* chunk packers pack / pack_bytes / get_items_per_chunk, and the          *)
(* incremental merkleize with its nested merge, run step by step.          *)
(*                                                                         *)
(* Python objects whose dynamic type matters are records with a "type"     *)
(* field.  A bytes object is either a literal (lit = TRUE, val = the       *)
(* sequence of its bytes) or a digest, kept as the term of its input so    *)
(* that two digests are equal exactly when their inputs are.  Byte strings *)
(* handled by the packers are plain sequences over 0..255.                 *)
(***************************************************************************)
EXTENDS Integers, Sequences, FiniteSets, TLC

\* ------------------------------------------------------------- bounds ----
MaxChunks == 8      \* longest chunk sequence handed to merkleize
MaxPad == 8         \* largest pad_for handed to merkleize
MaxBytes == 70      \* longest byte string handed to pack_bytes
MaxItems == 34      \* longest item sequence handed to pack
MaxItemSize == 34   \* largest item length / item_size
MinItemSize == 3    \* item_size ranges down to -MinItemSize
MaxSeed == 2        \* byte patterns used as item / byte-string contents

\* ---------------------------------------------------------- constants ----
CHUNK_SIZE == 32
NUM_ZEROHASHES == 100

\* ------------------------------------------------------ Python values ----
NoneObj == [type |-> "None"]
PyInt(v) == [type |-> "int", val |-> v]
Lit(s) == [type |-> "bytes", lit |-> TRUE, val |-> s]
Digest(t) == [type |-> "bytes", lit |-> FALSE, val |-> t]
TypeError == [type |-> "TypeError"]

IsBytes(v) == v.type = "bytes"
IsInt(v) == v.type = "int"

\* An int is kept modulo the modulus of Python's int hash, as h * 2^twice
\* where h = hash(hashed) is the seed-dependent hash of a bytes object.
HashOf(bytes) == [hashed |-> bytes, twice |-> 0]

\* a + b for the operand types the module produces: bytes + bytes
\* concatenates, int + int adds (the module only adds an int to itself),
\* anything else raises TypeError.
PyAdd(a, b) ==
    IF IsBytes(a) /\ IsBytes(b)
    THEN IF a.lit /\ b.lit THEN Lit(a.val \o b.val)
         ELSE Digest(<<"cat", a, b>>)
    ELSE IF IsInt(a) /\ IsInt(b)
    THEN IF a = b THEN PyInt([a.val EXCEPT !.twice = @ + 1])
         ELSE PyInt([sum |-> <<a.val, b.val>>])
    ELSE TypeError

\* the builtin hash(): an int; hash(n) of an int n is n modulo the modulus
builtin_hash(x) ==
    IF IsBytes(x) THEN PyInt(HashOf(x.val))
    ELSE IF IsInt(x) THEN x
    ELSE TypeError

\* ssz.hash.hash_eth2: a 32-byte digest of a byte string
hash_eth2(data) ==
    IF IsBytes(data) THEN Digest(<<"sha256", data.val>>) ELSE TypeError

EMPTY_CHUNK == [i \in 1..CHUNK_SIZE |-> 0]
ZERO_BYTES32 == Lit([i \in 1..32 |-> 0])

\* line 32: the entry appended for a layer, from the entry below it
zerohashes_layer(below) == builtin_hash(PyAdd(below, below))

\* lines 31-32 run for `layers` consecutive layers above `entry`; the run
\* is split in halves to keep the evaluation shallow
RECURSIVE zerohashes_above(_, _)
zerohashes_above(entry, layers) ==
    IF entry.type = "TypeError" \/ layers = 0 THEN entry
    ELSE IF layers = 1 THEN zerohashes_layer(entry)
    ELSE zerohashes_above(zerohashes_above(entry, layers \div 2), layers - layers \div 2)

\* lines 29-32: zerohashes = [ZERO_BYTES32], then one append per layer 1..99
zerohashes == [i \in 1..NUM_ZEROHASHES |-> zerohashes_above(ZERO_BYTES32, i - 1)]

\* zerohashes[d] with Python's 0-based index
ZeroHash(d) == zerohashes[d + 1]

\* ---------------------------------------------------- integer helpers ----
Max(a, b) == IF a >= b THEN a ELSE b
Min(a, b) == IF a <= b THEN a ELSE b

RECURSIVE bit_length(_)
bit_length(n) ==
    IF n < 0 THEN bit_length(-n)
    ELSE IF n = 0 THEN 0 ELSE 1 + bit_length(n \div 2)

\* leaf_index & (1 << layer) != 0
BitSet(index, layer) == (index \div (2 ^ layer)) % 2 = 1

\* ------------------------------------------------------------- state ----
VARIABLES
    pc,            \* position in merkleize: idle, leaves, merge, complement, pad, done, raised
    chunks,        \* merkleize argument (sequence of bytes objects)
    pad_for,       \* merkleize argument
    chunk_count, chunk_depth, max_depth, tmp_list,   \* merkleize locals
    next_leaf,     \* leaf_index of the for loop at line 158
    pad_layer,     \* layer of the for loop at line 167
    node, layer, leaf_index,                         \* merge locals
    merge_from,    \* call site of the running merge: leaves or complement
    result,        \* value returned by merkleize
    exc,           \* exception that left merkleize, and where it was raised
    zero_reads,    \* history: indices read from zerohashes in this call
    slot_uses,     \* history: indices used on tmp_list in this call
    none_read,     \* history: a tmp_list slot was read while still None
    stores,        \* history: levels at which a merge stored its node
    hashes,        \* history: number of hash_eth2 invocations in this call
    complemented,  \* history: the complement merge of line 163 was started
    base,          \* last root returned for pad_for = 1, and its chunks
    call,          \* packer call: [fn, arg]
    ret            \* its outcome: [status, value]

merkle_vars == <<pc, chunks, pad_for, chunk_count, chunk_depth, max_depth,
                 tmp_list, next_leaf, pad_layer, node, layer, leaf_index,
                 merge_from, result, exc, zero_reads, slot_uses, none_read,
                 stores, hashes, complemented, base>>
pack_vars == <<call, ret>>
vars == <<merkle_vars, pack_vars>>

NoBase == [set |-> FALSE, chunks |-> <<>>, root |-> NoneObj]
NoCall == [fn |-> "", arg |-> <<>>]
NoRet == [status |-> "", value |-> <<>>]
NoExc == [kind |-> "", at |-> ""]

\* a bytes object of 32 equal bytes
Chunk(fill) == Lit([i \in 1..CHUNK_SIZE |-> fill])
\* the zero chunk and a chunk that differs from every padding leaf
ChunkValues == {Chunk(0), Chunk(1)}

RECURSIVE SeqsUpTo(_, _)
SeqsUpTo(S, n) ==
    IF n = 0 THEN {<<>>}
    ELSE LET shorter == SeqsUpTo(S, n - 1)
         IN  shorter \cup {Append(q, x) : q \in {r \in shorter : Len(r) = n - 1}, x \in S}

ChunkSeqs == SeqsUpTo(ChunkValues, MaxChunks)

\* no merkleize call is running: its frame holds nothing
Frame0 ==
    /\ chunks = <<>> /\ pad_for = 1
    /\ chunk_count = 0 /\ chunk_depth = 0 /\ max_depth = 0
    /\ tmp_list = <<>> /\ next_leaf = 0 /\ pad_layer = 0
    /\ node = NoneObj /\ layer = 0 /\ leaf_index = 0 /\ merge_from = ""
    /\ result = NoneObj /\ exc = NoExc
    /\ zero_reads = {} /\ slot_uses = {} /\ none_read = FALSE
    /\ stores = {} /\ hashes = 0 /\ complemented = FALSE

Init ==
    /\ pc = "idle"
    /\ Frame0
    /\ base = NoBase
    /\ call = NoCall /\ ret = NoRet

\* ---------------------------------------------------------- merkleize ----
ChunkDepth_unclamped(count) == bit_length(count - 1)
\* line 138
ChunkDepth(count) == bit_length(Max(count - 1, 0))
\* line 139
MaxDepth(depth, pad) == Max(depth, bit_length(pad - 1))

\* lines 136-140: bind the arguments and set up the locals
MerkleizeCall(cs, pad) ==
    /\ pc = "idle"
    /\ chunks' = cs
    /\ pad_for' = pad
    /\ chunk_count' = Len(cs)
    /\ chunk_depth' = ChunkDepth(Len(cs))
    /\ max_depth' = MaxDepth(ChunkDepth(Len(cs)), pad)
    /\ tmp_list' = [l \in 0..MaxDepth(ChunkDepth(Len(cs)), pad) |-> NoneObj]
    /\ next_leaf' = 0
    /\ pc' = "leaves"
    /\ UNCHANGED <<pad_layer, node, layer, leaf_index, merge_from, result, exc,
                   zero_reads, slot_uses, none_read, stores, hashes, complemented,
                   base>>
    /\ UNCHANGED pack_vars

\* a caller with no root in hand calls merkleize on any chunks
FirstCall(cs, pad) ==
    /\ ~base.set
    /\ MerkleizeCall(cs, pad)

\* a caller holding merkleize(chunks, 1) calls again on the same chunks
SecondCall(pad) ==
    /\ base.set
    /\ MerkleizeCall(base.chunks, pad)

\* the caller drops the root it holds
Forget ==
    /\ pc = "idle"
    /\ base.set
    /\ base' = NoBase
    /\ UNCHANGED <<pc, chunks, pad_for, chunk_count, chunk_depth, max_depth,
                   tmp_list, next_leaf, pad_layer, node, layer, leaf_index,
                   merge_from, result, exc, zero_reads, slot_uses, none_read,
                   stores, hashes, complemented>>
    /\ UNCHANGED pack_vars

\* lines 158-159: the next real leaf enters merge (lines 143-144)
LeafMerge ==
    /\ pc = "leaves"
    /\ next_leaf < chunk_count
    /\ node' = chunks[next_leaf + 1]
    /\ leaf_index' = next_leaf
    /\ layer' = 0
    /\ merge_from' = "leaves"
    /\ next_leaf' = next_leaf + 1
    /\ pc' = "merge"
    /\ UNCHANGED <<chunks, pad_for, chunk_count, chunk_depth, max_depth, tmp_list,
                   pad_layer, result, exc, zero_reads, slot_uses, none_read,
                   stores, hashes, complemented, base>>
    /\ UNCHANGED pack_vars

\* line 158: the for loop over the real leaves is exhausted
LeavesDone ==
    /\ pc = "leaves"
    /\ next_leaf >= chunk_count
    /\ pc' = "complement"
    /\ UNCHANGED <<chunks, pad_for, chunk_count, chunk_depth, max_depth, tmp_list,
                   next_leaf, pad_layer, node, layer, leaf_index, merge_from,
                   result, exc, zero_reads, slot_uses, none_read, stores, hashes,
                   complemented, base>>
    /\ UNCHANGED pack_vars

\* line 162
NeedsComplement(depth, count) == 2 ^ depth # count

\* lines 162-163: merge(zerohashes[0], chunk_count)
ComplementMerge ==
    /\ pc = "complement"
    /\ NeedsComplement(chunk_depth, chunk_count)
    /\ node' = ZeroHash(0)
    /\ zero_reads' = zero_reads \cup {0}
    /\ leaf_index' = chunk_count
    /\ layer' = 0
    /\ merge_from' = "complement"
    /\ complemented' = TRUE
    /\ pc' = "merge"
    /\ UNCHANGED <<chunks, pad_for, chunk_count, chunk_depth, max_depth, tmp_list,
                   next_leaf, pad_layer, result, exc, slot_uses, none_read,
                   stores, hashes, base>>
    /\ UNCHANGED pack_vars

\* line 162 false: straight to the loop of line 167
ComplementSkip ==
    /\ pc = "complement"
    /\ ~NeedsComplement(chunk_depth, chunk_count)
    /\ pad_layer' = chunk_depth
    /\ pc' = "pad"
    /\ UNCHANGED <<chunks, pad_for, chunk_count, chunk_depth, max_depth, tmp_list,
                   next_leaf, node, layer, leaf_index, merge_from, result, exc,
                   zero_reads, slot_uses, none_read, stores, hashes, complemented,
                   base>>
    /\ UNCHANGED pack_vars

\* an exception leaves merge and merkleize; nothing is stored or returned
Raise(e) ==
    /\ pc' = "raised"
    /\ exc' = [kind |-> e, at |-> pc]
    /\ UNCHANGED <<chunks, pad_for, chunk_count, chunk_depth, max_depth, tmp_list,
                   next_leaf, pad_layer, node, layer, leaf_index, merge_from,
                   result, stores, hashes, complemented, base>>

\* line 146
IsLeftNode(index, lyr) == ~BitSet(index, lyr)
\* line 147
KeepsGoing(index, lyr, count, depth) == index = count /\ lyr < depth
\* lines 149 and 168: the operand of hash_eth2
WithZeroHash(nd, lyr) == PyAdd(nd, ZeroHash(lyr))
WithSlot_swapped(slot, nd) == PyAdd(nd, slot)
\* line 153: the operand of hash_eth2
WithSlot(slot, nd) == PyAdd(slot, nd)

\* lines 146-149, 154: a left node of the complement is hashed with zerohashes[layer]
MergeZero ==
    /\ pc = "merge"
    /\ IsLeftNode(leaf_index, layer)
    /\ KeepsGoing(leaf_index, layer, chunk_count, chunk_depth)
    /\ IF layer >= Len(zerohashes)
       THEN /\ Raise("IndexError")
            /\ UNCHANGED <<zero_reads, slot_uses, none_read>>
       ELSE /\ zero_reads' = zero_reads \cup {layer}
            /\ IF hash_eth2(WithZeroHash(node, layer)).type = "TypeError"
               THEN /\ Raise("TypeError")
                    /\ UNCHANGED <<slot_uses, none_read>>
               ELSE /\ node' = hash_eth2(WithZeroHash(node, layer))
                    /\ hashes' = hashes + 1
                    /\ layer' = layer + 1
                    /\ UNCHANGED <<pc, exc, chunks, pad_for, chunk_count, chunk_depth,
                                   max_depth, tmp_list, next_leaf, pad_layer,
                                   leaf_index, merge_from, result, slot_uses,
                                   none_read, stores, complemented, base>>
    /\ UNCHANGED pack_vars

\* lines 146, 152-154: a right node is hashed onto the slot of its level
MergeCombine ==
    /\ pc = "merge"
    /\ ~IsLeftNode(leaf_index, layer)
    /\ slot_uses' = slot_uses \cup {layer}
    /\ IF layer \notin DOMAIN tmp_list
       THEN /\ Raise("IndexError")
            /\ UNCHANGED <<zero_reads, none_read>>
       ELSE /\ none_read' = (none_read \/ tmp_list[layer] = NoneObj)
            /\ UNCHANGED zero_reads
            /\ IF hash_eth2(WithSlot(tmp_list[layer], node)).type = "TypeError"
               THEN Raise("TypeError")
               ELSE /\ node' = hash_eth2(WithSlot(tmp_list[layer], node))
                    /\ hashes' = hashes + 1
                    /\ layer' = layer + 1
                    /\ UNCHANGED <<pc, exc, chunks, pad_for, chunk_count, chunk_depth,
                                   max_depth, tmp_list, next_leaf, pad_layer,
                                   leaf_index, merge_from, result, stores,
                                   complemented, base>>
    /\ UNCHANGED pack_vars

\* lines 146-151, 155: break, store the node in the slot of its level, return
MergeStore ==
    /\ pc = "merge"
    /\ IsLeftNode(leaf_index, layer)
    /\ ~KeepsGoing(leaf_index, layer, chunk_count, chunk_depth)
    /\ slot_uses' = slot_uses \cup {layer}
    /\ IF layer \notin DOMAIN tmp_list
       THEN Raise("IndexError")
       ELSE /\ tmp_list' = [tmp_list EXCEPT ![layer] = node]
            /\ stores' = stores \cup {layer}
            /\ pc' = IF merge_from = "leaves" THEN "leaves" ELSE "pad"
            /\ pad_layer' = IF merge_from = "leaves" THEN pad_layer ELSE chunk_depth
            /\ UNCHANGED <<exc, chunks, pad_for, chunk_count, chunk_depth, max_depth,
                           next_leaf, node, layer, leaf_index, merge_from, result,
                           hashes, complemented, base>>
    /\ UNCHANGED <<zero_reads, none_read>>
    /\ UNCHANGED pack_vars

\* lines 167-168: one more level on top, the right sibling a zero hash
PadStep ==
    /\ pc = "pad"
    /\ pad_layer < max_depth
    /\ slot_uses' = slot_uses \cup {pad_layer, pad_layer + 1}
    /\ IF pad_layer \notin DOMAIN tmp_list \/ pad_layer + 1 \notin DOMAIN tmp_list
          \/ pad_layer >= Len(zerohashes)
       THEN /\ Raise("IndexError")
            /\ UNCHANGED <<zero_reads, none_read>>
       ELSE /\ none_read' = (none_read \/ tmp_list[pad_layer] = NoneObj)
            /\ zero_reads' = zero_reads \cup {pad_layer}
            /\ IF hash_eth2(WithZeroHash(tmp_list[pad_layer], pad_layer)).type = "TypeError"
               THEN Raise("TypeError")
               ELSE /\ tmp_list' = [tmp_list EXCEPT ![pad_layer + 1] =
                                       hash_eth2(WithZeroHash(tmp_list[pad_layer], pad_layer))]
                    /\ hashes' = hashes + 1
                    /\ pad_layer' = pad_layer + 1
                    /\ UNCHANGED <<pc, exc, chunks, pad_for, chunk_count, chunk_depth,
                                   max_depth, next_leaf, node, layer, leaf_index,
                                   merge_from, result, stores, complemented, base>>
    /\ UNCHANGED pack_vars

\* line 170
Return ==
    /\ pc = "pad"
    /\ pad_layer >= max_depth
    /\ result' = tmp_list[max_depth]
    /\ slot_uses' = slot_uses \cup {max_depth}
    /\ none_read' = (none_read \/ tmp_list[max_depth] = NoneObj)
    /\ pc' = "done"
    /\ UNCHANGED <<chunks, pad_for, chunk_count, chunk_depth, max_depth, tmp_list,
                   next_leaf, pad_layer, node, layer, leaf_index, merge_from, exc,
                   zero_reads, stores, hashes, complemented, base>>
    /\ UNCHANGED pack_vars

\* the call is over: its frame is gone; the caller keeps a root computed
\* with pad_for = 1
Finish ==
    /\ pc \in {"done", "raised"}
    /\ pc' = "idle"
    /\ base' = IF pc = "done" /\ pad_for = 1
               THEN [set |-> TRUE, chunks |-> chunks, root |-> result]
               ELSE base
    /\ chunks' = <<>> /\ pad_for' = 1
    /\ chunk_count' = 0 /\ chunk_depth' = 0 /\ max_depth' = 0
    /\ tmp_list' = <<>> /\ next_leaf' = 0 /\ pad_layer' = 0
    /\ node' = NoneObj /\ layer' = 0 /\ leaf_index' = 0 /\ merge_from' = ""
    /\ result' = NoneObj /\ exc' = NoExc
    /\ zero_reads' = {} /\ slot_uses' = {} /\ none_read' = FALSE
    /\ stores' = {} /\ hashes' = 0 /\ complemented' = FALSE
    /\ UNCHANGED pack_vars

\* ------------------------------------------------------------ packers ----
Ok(v) == [status |-> "ok", value |-> v]
Raised(kind, message) == [status |-> kind, value |-> message]

Zeros(n) == [i \in 1..n |-> 0]

\* bytes.ljust(width, b"\x00")
ljust(bytes, width) ==
    IF Len(bytes) >= width THEN bytes ELSE bytes \o Zeros(width - Len(bytes))

\* b"".join(parts)
RECURSIVE join(_)
join(parts) == IF parts = <<>> THEN <<>> ELSE Head(parts) \o join(Tail(parts))

\* toolz partition(n, seq, pad=pad): zip_longest over n references to one
\* iterator, so the last tuple is filled up with pad
partition_pad(n, seq, pad) ==
    [g \in 1..((Len(seq) + n - 1) \div n) |->
        [k \in 1..n |-> IF (g - 1) * n + k <= Len(seq) THEN seq[(g - 1) * n + k] ELSE pad]]

\* toolz partition(n, seq): zip, so an incomplete last tuple is dropped
partition(n, seq) ==
    [g \in 1..(Len(seq) \div n) |-> [k \in 1..n |-> seq[(g - 1) * n + k]]]

\* toolz take(n, seq) on an iterator: what it yields and what it leaves
taken(n, iterator) == SubSeq(iterator, 1, Min(n, Len(iterator)))
left(n, iterator) == SubSeq(iterator, Min(n, Len(iterator)) + 1, Len(iterator))

get_items_per_chunk_nodivisor(item_size) ==
    IF item_size < 0 THEN Raised("ValueError", "Item size must be positive integer")
    ELSE IF item_size = 0 THEN Ok(1)
    ELSE IF item_size <= CHUNK_SIZE THEN Ok(CHUNK_SIZE \div item_size)
    ELSE Raised("Exception", "Invariant: unreachable")

\* lines 64-74
get_items_per_chunk(item_size) ==
    IF item_size < 0 THEN Raised("ValueError", "Item size must be positive integer")
    ELSE IF item_size = 0 THEN Ok(1)
    ELSE IF CHUNK_SIZE % item_size # 0
    THEN Raised("ValueError", "Item size must be a divisor of chunk size")
    ELSE IF item_size <= CHUNK_SIZE THEN Ok(CHUNK_SIZE \div item_size)
    ELSE Raised("Exception", "Invariant: unreachable")

number_of_chunks_plus1(number_of_items, items_per_chunk) ==
    number_of_items \div items_per_chunk + 1

\* line 85
number_of_chunks(number_of_items, items_per_chunk) ==
    (number_of_items + (items_per_chunk - 1)) \div items_per_chunk

\* lines 87-95, once items_per_chunk is known
pack_chunks(serialized_values, items_per_chunk) ==
    LET chunk_partitions == partition_pad(items_per_chunk, serialized_values, <<>>)
        chunks_unpadded == [g \in 1..Len(chunk_partitions) |-> join(chunk_partitions[g])]
        wanted == number_of_chunks(Len(serialized_values), items_per_chunk) - 1
        full_chunks == taken(wanted, chunks_unpadded)
        after_take == left(wanted, chunks_unpadded)
    IN  IF wanted < 0 THEN Raised("ValueError", "islice")
        ELSE IF after_take = <<>> THEN Raised("StopIteration", "")
        ELSE IF Len(Tail(after_take)) > 0
        THEN Raised("Exception", "Invariant: all chunks have been taken")
        ELSE Ok(full_chunks \o <<ljust(Head(after_take), CHUNK_SIZE)>>)

\* lines 77-95
pack(serialized_values) ==
    IF Len(serialized_values) = 0 THEN Ok(<<EMPTY_CHUNK>>)
    ELSE LET items_per_chunk == get_items_per_chunk(Len(serialized_values[1]))
         IN  IF items_per_chunk.status # "ok" THEN items_per_chunk
             ELSE pack_chunks(serialized_values, items_per_chunk.value)

last_chunk_is_full_never(size) == FALSE
\* line 104
last_chunk_is_full(size) == size % CHUNK_SIZE = 0

\* lines 98-114
pack_bytes(byte_string) ==
    LET size == Len(byte_string)
        number_of_full_chunks == size \div CHUNK_SIZE
        full_chunks == [c \in 1..number_of_full_chunks |->
                           SubSeq(byte_string, (c - 1) * CHUNK_SIZE + 1, c * CHUNK_SIZE)]
    IN  IF size = 0 THEN Ok(<<EMPTY_CHUNK>>)
        ELSE IF last_chunk_is_full(size) THEN Ok(full_chunks)
        ELSE Ok(full_chunks \o
                <<ljust(SubSeq(byte_string, number_of_full_chunks * CHUNK_SIZE + 1, size),
                        CHUNK_SIZE)>>)

\* lines 117-121
get_next_power_of_two(value) ==
    IF value <= 0 THEN 1 ELSE 2 ^ bit_length(value - 1)

\* lines 124-133
hash_layer(child_layer) ==
    IF Len(child_layer) % 2 # 0
    THEN Raised("ValueError", "Layer must have an even number of elements")
    ELSE LET child_pairs == partition(2, child_layer)
         IN  Ok([p \in 1..Len(child_pairs) |->
                    hash_eth2(PyAdd(child_pairs[p][1], child_pairs[p][2]))])

\* ---- inputs of the packers: byte patterns ----
PatternByte(seed, position) == (seed * (7 * position + 1)) % 256
Bytes(n, seed, offset) == [k \in 1..n |-> PatternByte(seed, offset + k)]
\* n items, the first of length first_size, the others of length other_size
Items(n, first_size, other_size, seed) ==
    [j \in 1..n |-> IF j = 1 THEN Bytes(first_size, seed, 0)
                    ELSE Bytes(other_size, seed, first_size + (j - 2) * other_size)]

PackCall(items) ==
    /\ pc = "idle" /\ call = NoCall
    /\ call' = [fn |-> "pack", arg |-> items]
    /\ ret' = pack(items)
    /\ UNCHANGED merkle_vars

PackBytesCall(byte_string) ==
    /\ pc = "idle" /\ call = NoCall
    /\ call' = [fn |-> "pack_bytes", arg |-> byte_string]
    /\ ret' = pack_bytes(byte_string)
    /\ UNCHANGED merkle_vars

GetItemsPerChunkCall(item_size) ==
    /\ pc = "idle" /\ call = NoCall
    /\ call' = [fn |-> "get_items_per_chunk", arg |-> item_size]
    /\ ret' = get_items_per_chunk(item_size)
    /\ UNCHANGED merkle_vars

\* the caller has consumed the outcome
PackerReturn ==
    /\ call # NoCall
    /\ call' = NoCall
    /\ ret' = NoRet
    /\ UNCHANGED merkle_vars

\* other_size of a non-uniform input
OtherSizes(first_size) == {first_size, 1, first_size + 1}

NextPack ==
    \/ /\ call = NoCall
       /\ \E n \in 0..MaxItems, size \in 0..MaxItemSize, seed \in 0..MaxSeed :
             \E other \in OtherSizes(size) : PackCall(Items(n, size, other, seed))
    \/ /\ call = NoCall
       /\ \E n \in 0..MaxBytes, seed \in 0..MaxSeed : PackBytesCall(Bytes(n, seed, 0))
    \/ /\ call = NoCall
       /\ \E item_size \in (-MinItemSize)..MaxItemSize : GetItemsPerChunkCall(item_size)
    \/ PackerReturn

SpecPack == Init /\ [][NextPack]_vars

Next ==
    \/ /\ pc = "idle" /\ ~base.set
       /\ \E cs \in ChunkSeqs, pad \in 1..MaxPad : FirstCall(cs, pad)
    \/ \E pad \in 1..MaxPad : SecondCall(pad)
    \/ Forget
    \/ LeafMerge
    \/ LeavesDone
    \/ ComplementMerge
    \/ ComplementSkip
    \/ MergeZero
    \/ MergeCombine
    \/ MergeStore
    \/ PadStep
    \/ Return
    \/ Finish

Spec == Init /\ [][Next]_vars

\* ------------------------------------------------------ reference trees ----
\* root of the binary tree over a layer whose length is a power of two,
\* hashed layer by layer with hash_layer
RECURSIVE RootOfLayers(_)
RootOfLayers(nodes) ==
    IF Len(nodes) = 1 THEN nodes[1] ELSE RootOfLayers(hash_layer(nodes).value)

\* the leaves followed by zero chunks up to width leaves
PaddedLeaves(leaves, width) ==
    [k \in 1..width |-> IF k <= Len(leaves) THEN leaves[k] ELSE ZERO_BYTES32]

\* root of the perfect tree over the explicitly zero-padded leaf list
NaiveRoot(leaves, pad) ==
    RootOfLayers(PaddedLeaves(leaves, get_next_power_of_two(Max(Len(leaves), pad))))

IsPowerOfTwo(n) == \E k \in 0..n : 2 ^ k = n

Ended == pc \in {"done", "raised"}

\* node := H(node || zerohash(L)) for L = from, from + 1, ..., to - 1
RECURSIVE GrownWithZeroHashes(_, _, _)
GrownWithZeroHashes(nd, from, to) ==
    IF from >= to THEN nd
    ELSE GrownWithZeroHashes(hash_eth2(WithZeroHash(nd, from)), from + 1, to)

\* ---------------------------------------------------------- merkleize ----
\* C1: every call merkleize(chunks, pad_for) returns the root of the perfect
\* binary tree over the chunks zero-padded to the next power of two of
\* max(len(chunks), pad_for), every node being hash_eth2(left + right).
C1_MerkleizeIsNaiveRoot ==
    Ended => (pc = "done" /\ result = NaiveRoot(chunks, pad_for))

\* C2: the zero-hash table has 100 entries, entry 0 is 32 zero bytes and
\* every entry d >= 1 is hash_eth2(entry[d-1] + entry[d-1]), hence the root of
\* the all-zero subtree of height d.
C2_ZeroHashRecursion ==
    /\ Len(zerohashes) = 100
    /\ ZeroHash(0) = Lit(Zeros(32))
    /\ \A d \in 1..99 : ZeroHash(d) = hash_eth2(PyAdd(ZeroHash(d - 1), ZeroHash(d - 1)))
    /\ \A d \in 0..max_depth : ZeroHash(d) = RootOfLayers(PaddedLeaves(<<>>, 2 ^ d))

\* C3: merkleize(chunks, N) is merkleize(chunks, 1) grown by one
\* H(node || zerohash(L)) per level L = chunk_depth .. max_depth - 1.
C3_PaddingMonotone ==
    (Ended /\ base.set /\ base.chunks = chunks)
        => (pc = "done" /\ result = GrownWithZeroHashes(base.root, chunk_depth, max_depth))

\* C4: for a power-of-two number of chunks and pad_for = 1 merkleize returns
\* the balanced Merkle root of the chunks, skips the complement and reads no
\* zero hash; a single chunk is returned as it is, without hashing.
C4_PowerOfTwoExact ==
    (Ended /\ pad_for = 1 /\ IsPowerOfTwo(chunk_count))
        => /\ pc = "done"
           /\ result = RootOfLayers(chunks)
           /\ ~complemented
           /\ zero_reads = {}
           /\ chunk_count = 1 => (result = chunks[1] /\ hashes = 0)

C4_Witness ==
    /\ pc = "done" /\ pad_for = 1 /\ chunk_count = 4
    /\ chunks[1] # chunks[2] /\ chunks[3] # chunks[4]
    /\ hashes = 3

\* C5: merkleize([], 1) returns zerohashes[0], 32 zero bytes: both depths are
\* 0, the complement injects one virtual leaf at index 0, which is stored in
\* the level-0 slot without hashing and returned.
C5_EmptyRoot ==
    (Ended /\ chunk_count = 0 /\ pad_for = 1)
        => /\ pc = "done"
           /\ result = ZeroHash(0) /\ result = Lit(Zeros(32))
           /\ chunk_depth = 0 /\ max_depth = 0
           /\ complemented /\ leaf_index = 0 /\ zero_reads = {0}
           /\ stores = {0} /\ tmp_list[0] = result
           /\ hashes = 0

C5_Witness ==
    /\ pc = "done" /\ chunk_count = 0 /\ pad_for = 1
    /\ complemented /\ result = ZERO_BYTES32

\* C10: inside one merkleize call (a) every index used on tmp_list is in
\* 0..max_depth, (b) no slot is read while still None, (c) every merge ends by
\* storing its node at a level <= chunk_depth, (d) every zero-hash index read
\* is in 0..max_depth-1.
C10_AccumulatorSafety ==
    /\ slot_uses \subseteq 0..max_depth
    /\ ~none_read
    /\ exc.at # "merge" /\ stores \subseteq 0..chunk_depth
    /\ pc = "merge" => layer <= chunk_depth
    /\ zero_reads \subseteq 0..(max_depth - 1)

\* ------------------------------------------------------------ packers ----
Uniform(items) == \A j \in 1..Len(items) : Len(items[j]) = Len(items[1])
IsDivisorSize(size) == size >= 1 /\ size <= CHUNK_SIZE /\ CHUNK_SIZE % size = 0

\* least q with q * b >= a
CeilDiv(a, b) == CHOOSE q \in 0..a : q * b >= a /\ (q = 0 \/ (q - 1) * b < a)

\* bytes right-padded with zero bytes to the next multiple of 32
PaddedToChunks(bytes) ==
    bytes \o Zeros((CHUNK_SIZE - (Len(bytes) % CHUNK_SIZE)) % CHUNK_SIZE)
Slices(bytes) ==
    [c \in 1..(Len(bytes) \div CHUNK_SIZE) |->
        SubSeq(bytes, (c - 1) * CHUNK_SIZE + 1, c * CHUNK_SIZE)]

\* C6: pack of uniform items of a size dividing 32 returns
\* ceil(len / (32/size)) chunks, the 32-byte slices of the zero-padded
\* concatenation of the items, equal to pack_bytes of the concatenation;
\* pack of no items returns one chunk of 32 zero bytes.
C6_PackIsSlicedConcatenation ==
    (call.fn = "pack" /\ Uniform(call.arg))
        => /\ call.arg = <<>> => ret = Ok(<<Zeros(32)>>)
           /\ (call.arg # <<>> /\ IsDivisorSize(Len(call.arg[1])))
                 => /\ ret.status = "ok"
                    /\ Len(ret.value) = CeilDiv(Len(call.arg), 32 \div Len(call.arg[1]))
                    /\ ret.value = Slices(PaddedToChunks(join(call.arg)))
                    /\ ret = pack_bytes(join(call.arg))

C6_Witness ==
    /\ call.fn = "pack" /\ Len(call.arg) = 5 /\ Uniform(call.arg)
    /\ Len(call.arg[1]) = 16 /\ call.arg[1][1] # 0
    /\ ret.status = "ok" /\ Len(ret.value) = 3

\* C7: every chunk pack returns for uniform items of size 0 or a divisor of
\* 32, and every chunk pack_bytes returns, is exactly 32 bytes long.
C7_ChunksAre32Bytes ==
    (\/ call.fn = "pack_bytes"
     \/ /\ call.fn = "pack" /\ Uniform(call.arg)
        /\ call.arg # <<>> => (Len(call.arg[1]) = 0 \/ IsDivisorSize(Len(call.arg[1]))))
        => /\ ret.status = "ok"
           /\ \A c \in 1..Len(ret.value) : Len(ret.value[c]) = CHUNK_SIZE

\* C8: pack_bytes(b) returns max(1, ceil(len(b)/32)) chunks whose
\* concatenation starts with b and is zero after it; a positive multiple of
\* 32 gets no padding at all.
C8_PackBytesRoundTrip ==
    call.fn = "pack_bytes"
        => /\ ret.status = "ok"
           /\ Len(ret.value) = Max(1, CeilDiv(Len(call.arg), 32))
           /\ SubSeq(join(ret.value), 1, Len(call.arg)) = call.arg
           /\ \A k \in (Len(call.arg) + 1)..Len(join(ret.value)) : join(ret.value)[k] = 0
           /\ (Len(call.arg) > 0 /\ Len(call.arg) % 32 = 0)
                 => join(ret.value) = call.arg

C8_Witness ==
    /\ call.fn = "pack_bytes" /\ Len(call.arg) = 64 /\ call.arg[64] # 0
    /\ ret.status = "ok" /\ Len(ret.value) = 2

\* C9: get_items_per_chunk returns 32 / item_size exactly for the positive
\* divisors of 32, 1 for 0, and raises ValueError for every other size, and
\* so does pack for the length of its first item; neither internal-invariant
\* exception is ever raised.
C9_ItemSizeValidation ==
    /\ call.fn = "get_items_per_chunk"
          => IF IsDivisorSize(call.arg) THEN ret = Ok(32 \div call.arg)
             ELSE IF call.arg = 0 THEN ret = Ok(1)
             ELSE ret.status = "ValueError"
    /\ (call.fn = "pack" /\ call.arg # <<>>)
          => IF Len(call.arg[1]) = 0 \/ IsDivisorSize(Len(call.arg[1]))
             THEN ret.status = "ok"
             ELSE ret.status = "ValueError"
    /\ ret.status \notin {"Exception", "StopIteration"}

C9_Witness ==
    /\ call.fn = "get_items_per_chunk" /\ call.arg = 33
    /\ ret.status = "ValueError"

====
